---- MODULE Spec2Model ----
(***************************************************************************)
(* Model of livereload.go (package breezy): the live-reload middleware.    *)
(*                                                                         *)
(* Strings are sequences of one-character strings, so that the substring   *)
(* searches, the replacement and the lower-casing of the source are        *)
(* computed character by character.                                        *)
(*                                                                         *)
(* The real http.ResponseWriter and the websocket connection are library   *)
(* values the source only holds; they are modelled by the documented       *)
(* contract of the interface (the first Write commits status 200, the first*)
(* WriteHeader commits the status and the header map as it is then, later  *)
(* WriteHeader calls and later header changes do not reach the client).    *)
(***************************************************************************)
EXTENDS Integers, Sequences, FiniteSets, TLC

VARIABLES
    serverStartTime,  \* package variable, set once at process start
    pc,               \* position of the catch-all / mux handler for the request
    host,             \* r.Host of the request
    path,             \* r.URL.Path of the request
    calls,            \* the calls the wrapped handler has made so far
    invoked,          \* how many times next.ServeHTTP was entered
    target,           \* the writer next.ServeHTTP was given: "real" or "wrapper"
    wrapper,          \* the responseWriter capturer of the request
    w,                \* the real http.ResponseWriter of the request
    conn,             \* the notification connections, one record each
    fn,               \* the pure function under test, "none" when a request is served
    arg,              \* its arguments, as a tuple
    res               \* its result: <<>> before the call, <<value>> after

vars == <<serverStartTime, pc, host, path, calls, invoked, target, wrapper, w, conn, fn, arg, res>>

pureVars == <<fn, arg, res>>

httpVars == <<pc, host, path, calls, invoked, target, wrapper, w>>

----------------------------------------------------------------------------
(* Bounds of the model *)

MaxCalls == 3

MaxConns == 2

MaxReads == 2

MaxTokens == 3

----------------------------------------------------------------------------
(* Character strings *)

scriptHTML == <<"<", "s", "c", "r", "i", "p", "t", ">", "l", "r", "(", ")", "<", "/", "s", "c", "r", "i", "p", "t", ">">>

TagHeadClose == <<"<", "/", "h", "e", "a", "d", ">">>

TagBodyClose == <<"<", "/", "b", "o", "d", "y", ">">>

TagHtmlClose == <<"<", "/", "h", "t", "m", "l", ">">>

TagHtmlOpen == <<"<", "h", "t", "m", "l">>

TagDoctype == <<"<", "!", "d", "o", "c", "t", "y", "p", "e", " ", "h", "t", "m", "l">>

TagHeadOpen == <<"<", "h", "e", "a", "d", ">">>

TagBodyOpen == <<"<", "b", "o", "d", "y">>

TextHtml == <<"t", "e", "x", "t", "/", "h", "t", "m", "l">>

Localhost == <<"l", "o", "c", "a", "l", "h", "o", "s", "t">>

Loopback == <<"1", "2", "7", ".", "0", ".", "0", ".", "1">>

LocalhostColon == Localhost \o <<":">>

LoopbackColon == Loopback \o <<":">>

Newline == <<"\n">>

Upper == <<"A", "B", "C", "D", "E", "F", "G", "H", "I", "J", "K", "L", "M", "N", "O", "P", "Q", "R", "S", "T", "U", "V", "W", "X", "Y", "Z">>

Lower == <<"a", "b", "c", "d", "e", "f", "g", "h", "i", "j", "k", "l", "m", "n", "o", "p", "q", "r", "s", "t", "u", "v", "w", "x", "y", "z">>

(* strings.HasPrefix, and the match of p in s at position i *)
MatchAt(s, p, i) ==
    /\ i >= 1
    /\ i + Len(p) - 1 <= Len(s)
    /\ \A k \in 1..Len(p) : s[i + k - 1] = p[k]

HasPrefix(s, p) == MatchAt(s, p, 1)

(* strings.Contains *)
Contains(s, p) == \E i \in 1..(Len(s) - Len(p) + 1) : MatchAt(s, p, i)

(* strings.Index, 1-based; 0 when p does not occur *)
Index(s, p) ==
    IF Contains(s, p)
    THEN CHOOSE i \in 1..(Len(s) - Len(p) + 1) :
            /\ MatchAt(s, p, i)
            /\ \A j \in 1..(i - 1) : ~MatchAt(s, p, j)
    ELSE 0

RECURSIVE ReplaceAll(_, _, _)
(* Variant: strings.Replace(s, old, new, -1), every occurrence *)
ReplaceAll(s, old, new) ==
    IF Index(s, old) = 0
    THEN s
    ELSE SubSeq(s, 1, Index(s, old) - 1) \o new
            \o ReplaceAll(SubSeq(s, Index(s, old) + Len(old), Len(s)), old, new)

(* strings.Replace(s, old, new, 1): the first occurrence only *)
Replace1(s, old, new) ==
    LET i == Index(s, old)
    IN  IF i = 0
        THEN s
        ELSE SubSeq(s, 1, i - 1) \o new \o SubSeq(s, i + Len(old), Len(s))

LowerChar(c) ==
    IF \E k \in 1..Len(Upper) : Upper[k] = c
    THEN Lower[CHOOSE k \in 1..Len(Upper) : Upper[k] = c]
    ELSE c

(* strings.ToLower *)
ToLower(s) == [i \in 1..Len(s) |-> LowerChar(s[i])]

----------------------------------------------------------------------------
(* Inputs: hosts, paths, header keys and values, body chunks, status codes *)

HostLocal == <<"l", "o", "c", "a", "l", "h", "o", "s", "t", ":", "8", "0", "8", "0">>

HostLoop == <<"1", "2", "7", ".", "0", ".", "0", ".", "1">>

HostProd == <<"e", "x", "a", "m", "p", "l", "e", ".", "c", "o", "m">>

Hosts == {HostLocal, HostLoop, HostProd}

WSPath == <<"/", "w", "s", "/", "l", "i", "v", "e", "r", "e", "l", "o", "a", "d">>

PathIndex == <<"/", "i", "n", "d", "e", "x", ".", "h", "t", "m", "l">>

Paths == {WSPath, PathIndex}

PathWSSlash == WSPath \o <<"/">>

PathWSLonger == WSPath \o <<"x">>

PathWSDouble == <<"/">> \o WSPath

PathDotDot == <<"/", "a", "/", ".", ".">> \o WSPath

PathIndexDouble == <<"/">> \o PathIndex

RoutePaths == Paths \cup {PathWSSlash, PathWSLonger, PathWSDouble, PathDotDot, PathIndexDouble}

ContentType == "Content-Type"

XA == "X-A"

ContentLength == "Content-Length"

Keys == {ContentType, XA, ContentLength}

CTHtmlUtf8 == <<"t", "e", "x", "t", "/", "h", "t", "m", "l", ";", " ", "c", "h", "a", "r", "s", "e", "t", "=", "u", "t", "f", "-", "8">>

CTJson == <<"a", "p", "p", "l", "i", "c", "a", "t", "i", "o", "n", "/", "j", "s", "o", "n">>

ValOne == <<"1">>

ChunkHeadOpen == <<"<", "H", "E", "A", "D", ">">>

ChunkHeadCloseA == <<"<", "/", "h", "e">>

ChunkHeadCloseB == <<"a", "d", ">">>

ChunkJson == <<"{", "\"", "a", "\"", ":", "1", "}">>

Chunks == {ChunkHeadOpen, ChunkHeadCloseA, ChunkHeadCloseB, TagBodyClose, ChunkJson}

StatusOK == 200

Codes == {StatusOK, 404, 500}

StartTimes == {1700000000, 1700000060}

Conns == 1..MaxConns

Digits == <<"0", "1", "2", "3", "4", "5", "6", "7", "8", "9">>

RECURSIVE Itoa(_)
(* strconv.Itoa, for n >= 0: the decimal digits of n *)
Itoa(n) ==
    IF n < 10 THEN <<Digits[n + 1]>> ELSE Itoa(n \div 10) \o <<Digits[(n % 10) + 1]>>

DigitValue(c) == (CHOOSE k \in 1..10 : Digits[k] = c) - 1

RECURSIVE Atoi(_)
(* The number a string of decimal digits stands for *)
Atoi(ds) ==
    IF ds = <<>> THEN 0 ELSE 10 * Atoi(SubSeq(ds, 1, Len(ds) - 1)) + DigitValue(ds[Len(ds)])

RECURSIVE Flatten(_)
Flatten(q) == IF q = <<>> THEN <<>> ELSE Head(q) \o Flatten(Tail(q))

(* The strings made of at most n of the tokens T, one after the other *)
TokenStrings(T, n) == {Flatten(q) : q \in UNION {[1..k -> T] : k \in 0..n}}

TagP == <<"<", "p", ">">>

TagHeadCloseUpper == <<"<", "/", "H", "E", "A", "D", ">">>

InjectBodies ==
    TokenStrings({TagHeadClose, TagBodyClose, TagHtmlClose, TagP, TagHeadCloseUpper}, MaxTokens)

TagHtmlOpenUpper == <<"<", "H", "T", "M", "L">>

TagDoctypeUpper == <<"<", "!", "D", "O", "C", "T", "Y", "P", "E", " ", "h", "t", "m", "l">>

TagBodyOpenMixed == <<"<", "B", "o", "d", "y">>

TagHeadBare == <<"<", "h", "e", "a", "d">>

SniffBodies ==
    TokenStrings({TagHtmlOpenUpper, TagDoctypeUpper, TagHeadOpen, TagHeadBare,
                  TagBodyOpenMixed, TagBodyClose, ChunkJson}, MaxTokens - 1)

CTHtmlUpper == <<"T", "E", "X", "T", "/", "H", "T", "M", "L">>

SniffHeaders ==
    {[k \in Keys |-> IF k = ContentType THEN v ELSE <<>>] :
        v \in {<<>>, <<CTHtmlUtf8>>, <<CTJson>>, <<CTHtmlUpper>>, <<CTJson, CTHtmlUtf8>>}}

HostPartMy == <<"m", "y", ".">>

HostPartPort == <<":", "3", "0", "0", "0">>

HostPartUpper == <<"L", "O", "C", "A", "L", "H", "O", "S", "T">>

HostPartOther == <<"1", "2", "7", ".", "0", ".", "0", ".", "2">>

ModeHosts ==
    TokenStrings({Localhost, Loopback, HostProd, HostPartMy, HostPartPort,
                  HostPartUpper, HostPartOther}, MaxTokens)

----------------------------------------------------------------------------
(* Content Classifier and Script Injector *)

EmptyHeader == [k \in Keys |-> <<>>]

(* http.Header.Get: the first value of the key, "" when there is none *)
HeaderGet(headers, key) ==
    IF headers[key] = <<>> THEN <<>> ELSE headers[key][1]

(* Variant: the body is looked at only when no content type is declared *)
isHTMLResponse_DeclaredTypeWins(body, headers) ==
    IF HeaderGet(headers, ContentType) # <<>>
    THEN Contains(HeaderGet(headers, ContentType), TextHtml)
    ELSE \/ Contains(ToLower(body), TagHtmlOpen)
         \/ Contains(ToLower(body), TagDoctype)
         \/ Contains(ToLower(body), TagHeadOpen)
         \/ (Contains(ToLower(body), TagBodyOpen) /\ Contains(ToLower(body), TagBodyClose))

isHTMLResponse(body, headers) ==
    LET contentType == HeaderGet(headers, ContentType)
        bodyLower == ToLower(body)
    IN  IF Contains(contentType, TextHtml)
        THEN TRUE
        ELSE \/ Contains(bodyLower, TagHtmlOpen)
             \/ Contains(bodyLower, TagDoctype)
             \/ Contains(bodyLower, TagHeadOpen)
             \/ (Contains(bodyLower, TagBodyOpen) /\ Contains(bodyLower, TagBodyClose))

(* Variant: every host is development mode *)
isDevelopmentMode_Always(h) == TRUE

(* Variant: only the two prefix tests *)
isDevelopmentMode_PrefixOnly(h) ==
    HasPrefix(h, LocalhostColon) \/ HasPrefix(h, LoopbackColon)

isDevelopmentMode(h) ==
    \/ Contains(h, Localhost)
    \/ Contains(h, Loopback)
    \/ HasPrefix(h, LocalhostColon)
    \/ HasPrefix(h, LoopbackColon)

(* Variant: </body> is looked for before </head> *)
injectScript_BodyFirst(body) ==
    IF Contains(body, TagBodyClose)
    THEN Replace1(body, TagBodyClose, scriptHTML \o Newline \o TagBodyClose)
    ELSE IF Contains(body, TagHeadClose)
    THEN Replace1(body, TagHeadClose, scriptHTML \o Newline \o TagHeadClose)
    ELSE IF Contains(body, TagHtmlClose)
    THEN Replace1(body, TagHtmlClose, scriptHTML \o Newline \o TagHtmlClose)
    ELSE body \o scriptHTML

injectScript(body) ==
    IF Contains(body, TagHeadClose)
    THEN Replace1(body, TagHeadClose, scriptHTML \o Newline \o TagHeadClose)
    ELSE IF Contains(body, TagBodyClose)
    THEN Replace1(body, TagBodyClose, scriptHTML \o Newline \o TagBodyClose)
    ELSE IF Contains(body, TagHtmlClose)
    THEN Replace1(body, TagHtmlClose, scriptHTML \o Newline \o TagHtmlClose)
    ELSE body \o scriptHTML

----------------------------------------------------------------------------
(* http.ServeMux, as Middleware sets it up: the pattern /ws/livereload     *)
(* matches that path alone, the pattern / matches every other path; a      *)
(* request whose path is not in canonical form is answered by the mux      *)
(* itself with a redirect to the canonical path, and reaches no handler.   *)

Slash == <<"/">>

RECURSIVE SplitPath(_, _, _)
(* The segments of a path: the pieces between slashes, empty ones included *)
SplitPath(s, cur, acc) ==
    IF s = <<>>
    THEN Append(acc, cur)
    ELSE IF Head(s) = "/"
    THEN SplitPath(Tail(s), <<>>, Append(acc, cur))
    ELSE SplitPath(Tail(s), Append(cur, Head(s)), acc)

RECURSIVE ResolveSegments(_, _)
(* path.Clean on a rooted path: empty and "." segments are dropped, ".."   *)
(* drops the segment before it (nothing at the root)                       *)
ResolveSegments(segs, out) ==
    IF segs = <<>>
    THEN out
    ELSE IF Head(segs) = <<>> \/ Head(segs) = <<".">>
    THEN ResolveSegments(Tail(segs), out)
    ELSE IF Head(segs) = <<".", ".">>
    THEN ResolveSegments(Tail(segs), IF out = <<>> THEN out ELSE SubSeq(out, 1, Len(out) - 1))
    ELSE ResolveSegments(Tail(segs), Append(out, Head(segs)))

RECURSIVE JoinRooted(_)
JoinRooted(segs) ==
    IF segs = <<>> THEN <<>> ELSE Slash \o Head(segs) \o JoinRooted(Tail(segs))

(* net/http cleanPath: the canonical form of a request path; a trailing    *)
(* slash is kept                                                           *)
cleanPath(p) ==
    IF p = <<>>
    THEN Slash
    ELSE LET q == IF Head(p) # "/" THEN Slash \o p ELSE p
             js == JoinRooted(ResolveSegments(SplitPath(q, <<>>, <<>>), <<>>))
             np == IF js = <<>> THEN Slash ELSE js
         IN  IF q[Len(q)] = "/" /\ np # Slash THEN np \o Slash ELSE np

(* Variant: the notification pattern matches the paths below it as well *)
Route_Subtree(p) ==
    IF cleanPath(p) # p
    THEN "redirect"
    ELSE IF HasPrefix(p, WSPath) THEN "notification" ELSE "catchall"

(* The handler the mux gives the request to *)
Route(p) ==
    IF cleanPath(p) # p
    THEN "redirect"
    ELSE IF p = WSPath THEN "notification" ELSE "catchall"

----------------------------------------------------------------------------
(* Calls on a response writer *)

Call(op, key, value, code, data) ==
    [op |-> op, key |-> key, value |-> value, code |-> code, data |-> data]

CallWrite(b) == Call("Write", "", <<>>, 0, b)

CallWriteHeader(c) == Call("WriteHeader", "", <<>>, c, <<>>)

CallHeaderSet(k, v) == Call("Header.Set", k, v, 0, <<>>)

CallHeaderAdd(k, v) == Call("Header.Add", k, v, 0, <<>>)

(* The calls the wrapped handler may make on the writer it is given *)
HandlerCalls ==
    {CallWrite(b) : b \in Chunks}
        \cup {CallWriteHeader(c) : c \in Codes}
        \cup {CallHeaderSet(ContentType, v) : v \in {CTHtmlUtf8, CTJson}}
        \cup {CallHeaderAdd(XA, ValOne)}

HeaderOps == {"Header.Set", "Header.Add"}

----------------------------------------------------------------------------
(* The real http.ResponseWriter: header is the live header map, sentHeader *)
(* the header map as committed with the status, wire the events sent to    *)
(* the client in order, log the calls made on the writer in order.         *)

WireStatus(c) == [ev |-> "status", code |-> c, data |-> <<>>]

WireBody(b) == [ev |-> "body", code |-> 0, data |-> b]

NewReal ==
    [header |-> EmptyHeader, wroteHeader |-> FALSE, status |-> 0,
     sentHeader |-> EmptyHeader, body |-> <<>>, wire |-> <<>>, log |-> <<>>]

(* The status line and the header map as it is now go out together *)
Commit(rw, c) ==
    IF rw.wroteHeader
    THEN rw
    ELSE [rw EXCEPT !.wroteHeader = TRUE, !.status = c,
                    !.sentHeader = rw.header,
                    !.wire = Append(@, WireStatus(c))]

RealWriteHeader(rw, c) ==
    [Commit(rw, c) EXCEPT !.log = Append(@, CallWriteHeader(c))]

RealWrite(rw, b) ==
    [Commit(rw, StatusOK) EXCEPT !.body = @ \o b,
                                 !.wire = Append(@, WireBody(b)),
                                 !.log = Append(@, CallWrite(b))]

RealHeaderSet(rw, k, v) ==
    [rw EXCEPT !.header[k] = <<v>>, !.log = Append(@, CallHeaderSet(k, v))]

RealHeaderAdd(rw, k, v) ==
    [rw EXCEPT !.header[k] = Append(@, v), !.log = Append(@, CallHeaderAdd(k, v))]

(* One call of the handler made directly on the real writer *)
ApplyReal(rw, c) ==
    CASE c.op = "Write" -> RealWrite(rw, c.data)
      [] c.op = "WriteHeader" -> RealWriteHeader(rw, c.code)
      [] c.op = "Header.Set" -> RealHeaderSet(rw, c.key, c.value)
      [] c.op = "Header.Add" -> RealHeaderAdd(rw, c.key, c.value)

----------------------------------------------------------------------------
(* Response Capturer: type responseWriter *)

NoWrapper == [exists |-> FALSE, body |-> <<>>, statusCode |-> 0]

NewWrapper == [exists |-> TRUE, body |-> <<>>, statusCode |-> StatusOK]

(* Variant: the buffer is overwritten, not appended to *)
WrapperWrite_Overwrite(cw, b) == [cw EXCEPT !.body = b]

WrapperWrite(cw, b) == [cw EXCEPT !.body = @ \o b]

(* Variant: the status code is not recorded *)
WrapperWriteHeader_Ignored(cw, statusCode) == cw

WrapperWriteHeader(cw, statusCode) == [cw EXCEPT !.statusCode = statusCode]

(* responseWriter.Header returns the real writer's header map: a header   *)
(* call of the handler acts on the real writer.                            *)
WrapperHeader(rw, c) == ApplyReal(rw, c)

(* Variant: the capturer has no WriteHeader of its own, the embedded       *)
(* writer's is called                                                      *)
ApplyWrapper_NoWriteHeaderOverride(cw, rw, c) ==
    CASE c.op = "Write" -> <<[cw EXCEPT !.body = @ \o c.data], rw>>
      [] c.op = "WriteHeader" -> <<cw, RealWriteHeader(rw, c.code)>>
      [] c.op \in {"Header.Set", "Header.Add"} -> <<cw, ApplyReal(rw, c)>>

(* One call of the handler on the capturer: the new <<capturer, real writer>> *)
ApplyWrapper(cw, rw, c) ==
    CASE c.op = "Write" -> <<WrapperWrite(cw, c.data), rw>>
      [] c.op = "WriteHeader" -> <<WrapperWriteHeader(cw, c.code), rw>>
      [] c.op \in HeaderOps -> <<cw, WrapperHeader(rw, c)>>

----------------------------------------------------------------------------
(* Dispatcher: the flush of a captured response *)

RECURSIVE AddAll(_, _, _)
(* for _, value := range values { w.Header().Add(key, value) } *)
AddAll(rw, key, values) ==
    IF values = <<>>
    THEN rw
    ELSE AddAll(RealHeaderAdd(rw, key, Head(values)), key, Tail(values))

RECURSIVE CopyHeaders(_, _)
(* for key, values := range wrapper.Header(): the keys present, in the     *)
(* order the map iteration yields them; values is the slice as it is when  *)
(* the key is reached.                                                     *)
CopyHeaders(rw, order) ==
    IF order = <<>>
    THEN rw
    ELSE CopyHeaders(AddAll(rw, Head(order), rw.header[Head(order)]), Tail(order))

(* Variant: WriteHeader also when the status is 200 *)
FlushStatus_Always(rw, cw) == RealWriteHeader(rw, cw.statusCode)

FlushStatus(rw, cw) ==
    IF cw.statusCode # StatusOK THEN RealWriteHeader(rw, cw.statusCode) ELSE rw

(* Variant: nothing is written when the captured body is empty *)
FlushNonHTML_SkipEmpty(rw, cw) ==
    IF cw.body = <<>> THEN FlushStatus(rw, cw) ELSE RealWrite(FlushStatus(rw, cw), cw.body)

FlushNonHTML(rw, cw) == RealWrite(FlushStatus(rw, cw), cw.body)

FlushHTML(rw, cw, order) ==
    LET modifiedBody == injectScript(cw.body)
    IN  RealWrite(CopyHeaders(FlushStatus(rw, cw), order), modifiedBody)

PresentKeys(headers) == {k \in Keys : headers[k] # <<>>}

(* The orders in which a map iteration may yield the keys of the set ks *)
KeyOrders(ks) ==
    {o \in UNION {[1..n -> ks] : n \in {Cardinality(ks)}} :
        \A i, j \in DOMAIN o : i # j => o[i] # o[j]}

----------------------------------------------------------------------------
(* Notification Endpoint: one record per connection *)

NoConn ==
    [pc |-> "none", open |-> FALSE, closed |-> FALSE, trace |-> <<>>,
     sent |-> <<>>, logged |-> <<>>]

ServerInfo(startTime) == [type |-> "server-info", startTime |-> startTime]

ClientMsgs == {"ping", "hello"}

(* handleLiveReload is entered *)
Entered(c) == [c EXCEPT !.pc = "upgrade"]

(* upgrader.Upgrade succeeded: the channel exists, conn.Close is deferred *)
Upgraded(c) ==
    [c EXCEPT !.pc = "send", !.open = TRUE, !.trace = Append(@, "upgrade_ok")]

(* Variant: the return after the failed upgrade is missing *)
UpgradeFailed_NoReturn(c) ==
    [c EXCEPT !.pc = "send", !.trace = Append(@, "upgrade_fail"),
              !.logged = Append(@, "WebSocket upgrade failed")]

(* upgrader.Upgrade failed: log and return, there is no channel *)
UpgradeFailed(c) ==
    [c EXCEPT !.pc = "done", !.trace = Append(@, "upgrade_fail"),
              !.logged = Append(@, "WebSocket upgrade failed")]

(* the deferred conn.Close() runs as the handler returns *)
Returned(c) ==
    [c EXCEPT !.pc = "done", !.closed = TRUE, !.trace = Append(@, "close")]

(* conn.WriteJSON succeeded *)
InfoSent(c, startTime) ==
    [c EXCEPT !.pc = "read", !.sent = Append(@, ServerInfo(startTime)),
              !.trace = Append(@, "send_ok")]

(* Variant: return without closing *)
InfoFailed_NoClose(c) ==
    [c EXCEPT !.pc = "done", !.trace = Append(@, "send_fail"),
              !.logged = Append(@, "Failed to send server info")]

(* conn.WriteJSON failed: log and return *)
InfoFailed(c) ==
    Returned([c EXCEPT !.trace = Append(@, "send_fail"),
                       !.logged = Append(@, "Failed to send server info")])

(* Variant: the loop ends after a message is read *)
ReadDone_Break(c, m) ==
    [c EXCEPT !.pc = "done", !.closed = TRUE,
              !.trace = @ \o <<"read_ok", "close">>]

(* Variant: the message read is answered *)
ReadDone_Reply(c, m) ==
    [c EXCEPT !.trace = Append(@, "read_ok"), !.sent = Append(@, m)]

(* conn.ReadMessage returned a message: it is discarded, the loop goes on *)
ReadDone(c, m) == [c EXCEPT !.trace = Append(@, "read_ok")]

(* conn.ReadMessage returned an error: break, then return *)
ReadFailed(c) == Returned([c EXCEPT !.trace = Append(@, "read_fail")])

Reads(c) == Cardinality({i \in DOMAIN c.trace : c.trace[i] = "read_ok"})

----------------------------------------------------------------------------
(* Initial state: the process has started, no request has arrived *)

Init ==
    /\ serverStartTime \in StartTimes
    /\ pc = "idle"
    /\ host = <<>>
    /\ path = <<>>
    /\ calls = <<>>
    /\ invoked = 0
    /\ target = "none"
    /\ wrapper = NoWrapper
    /\ w = NewReal
    /\ conn = [i \in Conns |-> NoConn]
    /\ fn = "none"
    /\ arg = <<>>
    /\ res = <<>>

----------------------------------------------------------------------------
(* Dispatcher: Middleware *)

(* The mux routes the exact path /ws/livereload to handleLiveReload *)
ServeNotificationIn(P) ==
    /\ pc = "idle"
    /\ \E h \in Hosts, p \in P :
        /\ Route(p) = "notification"
        /\ host' = h
        /\ path' = p
    /\ pc' = "ws"
    /\ conn' = [conn EXCEPT ![1] = Entered(@)]
    /\ UNCHANGED <<pureVars, serverStartTime, calls, invoked, target, wrapper, w>>

ServeNotification == ServeNotificationIn(Paths)

(* Catch-all route, not development mode: next.ServeHTTP(w, r) *)
ServePassThroughIn(P) ==
    /\ pc = "idle"
    /\ \E h \in Hosts, p \in P :
        /\ Route(p) = "catchall"
        /\ ~isDevelopmentMode(h)
        /\ host' = h
        /\ path' = p
    /\ pc' = "handler"
    /\ target' = "real"
    /\ invoked' = invoked + 1
    /\ UNCHANGED <<pureVars, serverStartTime, calls, wrapper, w, conn>>

ServePassThrough == ServePassThroughIn(Paths)

(* Catch-all route, development mode: next.ServeHTTP(wrapper, r) *)
ServeCaptureIn(P) ==
    /\ pc = "idle"
    /\ \E h \in Hosts, p \in P :
        /\ Route(p) = "catchall"
        /\ isDevelopmentMode(h)
        /\ host' = h
        /\ path' = p
    /\ wrapper' = NewWrapper
    /\ pc' = "handler"
    /\ target' = "wrapper"
    /\ invoked' = invoked + 1
    /\ UNCHANGED <<pureVars, serverStartTime, calls, w, conn>>

ServeCapture == ServeCaptureIn(Paths)

(* The path is not canonical: the mux answers with a redirect (status 301; *)
(* its Location header is left out) and no handler of Middleware runs.     *)
ServeRedirectIn(P) ==
    /\ pc = "idle"
    /\ \E h \in Hosts, p \in P :
        /\ Route(p) = "redirect"
        /\ host' = h
        /\ path' = p
    /\ w' = RealWriteHeader(w, 301)
    /\ pc' = "redirect"
    /\ UNCHANGED <<pureVars, serverStartTime, calls, invoked, target, wrapper, conn>>

(* The wrapped handler makes one call, among the calls cs, on the writer   *)
(* it was given                                                            *)
HandlerCallIn(cs) ==
    /\ pc = "handler"
    /\ Len(calls) < MaxCalls
    /\ \E c \in cs :
        /\ calls' = Append(calls, c)
        /\ IF target = "real"
           THEN /\ w' = ApplyReal(w, c)
                /\ wrapper' = wrapper
           ELSE /\ wrapper' = ApplyWrapper(wrapper, w, c)[1]
                /\ w' = ApplyWrapper(wrapper, w, c)[2]
    /\ UNCHANGED <<pureVars, serverStartTime, pc, host, path, invoked, target, conn>>

HandlerCall == HandlerCallIn(HandlerCalls)

(* The wrapped handler returns from next.ServeHTTP(w, r) *)
ReturnPassThrough ==
    /\ pc = "handler"
    /\ target = "real"
    /\ pc' = "done"
    /\ UNCHANGED <<pureVars, serverStartTime, host, path, calls, invoked, target, wrapper, w, conn>>

(* The wrapped handler returns to the capture branch; not HTML *)
ReturnNonHTML ==
    /\ pc = "handler"
    /\ target = "wrapper"
    /\ ~isHTMLResponse(wrapper.body, w.header)
    /\ w' = FlushNonHTML(w, wrapper)
    /\ pc' = "done"
    /\ UNCHANGED <<pureVars, serverStartTime, host, path, calls, invoked, target, wrapper, conn>>

(* The wrapped handler returns to the capture branch; HTML *)
ReturnHTML ==
    /\ pc = "handler"
    /\ target = "wrapper"
    /\ isHTMLResponse(wrapper.body, w.header)
    /\ \E order \in KeyOrders(PresentKeys(w.header)) :
        w' = FlushHTML(w, wrapper, order)
    /\ pc' = "done"
    /\ UNCHANGED <<pureVars, serverStartTime, host, path, calls, invoked, target, wrapper, conn>>

----------------------------------------------------------------------------
(* Notification Endpoint: handleLiveReload *)

(* A connection's request reaches handleLiveReload *)
Accept(i) ==
    /\ conn[i].pc = "none"
    /\ conn' = [conn EXCEPT ![i] = Entered(@)]
    /\ UNCHANGED <<pureVars, serverStartTime, httpVars>>

UpgradeOk(i) ==
    /\ conn[i].pc = "upgrade"
    /\ conn' = [conn EXCEPT ![i] = Upgraded(@)]
    /\ UNCHANGED <<pureVars, serverStartTime, httpVars>>

UpgradeErr(i) ==
    /\ conn[i].pc = "upgrade"
    /\ conn' = [conn EXCEPT ![i] = UpgradeFailed(@)]
    /\ UNCHANGED <<pureVars, serverStartTime, httpVars>>

WriteJSONOk(i) ==
    /\ conn[i].pc = "send"
    /\ conn' = [conn EXCEPT ![i] = InfoSent(@, serverStartTime)]
    /\ UNCHANGED <<pureVars, serverStartTime, httpVars>>

WriteJSONErr(i) ==
    /\ conn[i].pc = "send"
    /\ conn' = [conn EXCEPT ![i] = InfoFailed(@)]
    /\ UNCHANGED <<pureVars, serverStartTime, httpVars>>

ReadMessageOk(i) ==
    /\ conn[i].pc = "read"
    /\ Reads(conn[i]) < MaxReads
    /\ \E m \in ClientMsgs : conn' = [conn EXCEPT ![i] = ReadDone(@, m)]
    /\ UNCHANGED <<pureVars, serverStartTime, httpVars>>

ReadMessageErr(i) ==
    /\ conn[i].pc = "read"
    /\ conn' = [conn EXCEPT ![i] = ReadFailed(@)]
    /\ UNCHANGED <<pureVars, serverStartTime, httpVars>>

EndpointStep ==
    \E i \in Conns :
        \/ UpgradeOk(i)
        \/ UpgradeErr(i)
        \/ WriteJSONOk(i)
        \/ WriteJSONErr(i)
        \/ ReadMessageOk(i)
        \/ ReadMessageErr(i)

----------------------------------------------------------------------------
(* Specifications *)

(* One request through the composite handler Middleware returns *)
Next ==
    \/ ServeNotification
    \/ ServePassThrough
    \/ ServeCapture
    \/ HandlerCall
    \/ ReturnPassThrough
    \/ ReturnNonHTML
    \/ ReturnHTML
    \/ EndpointStep

Spec == Init /\ [][Next]_vars

(* Concurrent notification connections *)
NextWS ==
    \/ \E i \in Conns : Accept(i)
    \/ EndpointStep

SpecWS == Init /\ [][NextWS]_vars

(* Routing: requests with more paths, and a handler making fewer calls *)
RouteCalls == {CallWrite(ChunkJson), CallWriteHeader(404)}

NextRoute ==
    \/ ServeNotificationIn(RoutePaths)
    \/ ServePassThroughIn(RoutePaths)
    \/ ServeCaptureIn(RoutePaths)
    \/ ServeRedirectIn(RoutePaths)
    \/ HandlerCallIn(RouteCalls)
    \/ ReturnPassThrough
    \/ ReturnNonHTML
    \/ EndpointStep

SpecRoute == Init /\ [][NextRoute]_vars

(* A handler that declares a Content-Length *)
LengthChunks == {TagHeadOpen, ChunkJson}

LengthCalls ==
    {CallWrite(b) : b \in LengthChunks}
        \cup {CallWriteHeader(404), CallHeaderSet(ContentType, CTHtmlUtf8)}
        \cup {CallHeaderSet(ContentLength, Itoa(Len(b))) : b \in LengthChunks \cup {<<>>}}

NextLength ==
    \/ ServePassThrough
    \/ ServeCapture
    \/ HandlerCallIn(LengthCalls)
    \/ ReturnPassThrough
    \/ ReturnNonHTML
    \/ ReturnHTML

SpecLength == Init /\ [][NextLength]_vars

(* The three pure functions, each called once on arguments drawn at the    *)
(* start                                                                   *)
InitPure ==
    /\ serverStartTime \in StartTimes
    /\ pc = "idle"
    /\ host = <<>>
    /\ path = <<>>
    /\ calls = <<>>
    /\ invoked = 0
    /\ target = "none"
    /\ wrapper = NoWrapper
    /\ w = NewReal
    /\ conn = [i \in Conns |-> NoConn]
    /\ res = <<>>
    /\ \/ fn = "injectScript" /\ arg \in {<<b>> : b \in InjectBodies}
       \/ fn = "isHTMLResponse" /\ arg \in {<<b, h>> : b \in SniffBodies, h \in SniffHeaders}
       \/ fn = "isDevelopmentMode" /\ arg \in {<<h, p>> : h \in ModeHosts, p \in Paths}

(* modifiedBody := injectScript(body) *)
CallInjectScript ==
    /\ fn = "injectScript"
    /\ res = <<>>
    /\ res' = <<injectScript(arg[1])>>
    /\ UNCHANGED <<serverStartTime, httpVars, conn, fn, arg>>

(* isHTMLResponse(body, wrapper.Header()) *)
CallIsHTMLResponse ==
    /\ fn = "isHTMLResponse"
    /\ res = <<>>
    /\ res' = <<isHTMLResponse(arg[1], arg[2])>>
    /\ UNCHANGED <<serverStartTime, httpVars, conn, fn, arg>>

(* isDevelopmentMode(r), r a request with Host arg[1] and path arg[2] *)
CallIsDevelopmentMode ==
    /\ fn = "isDevelopmentMode"
    /\ res = <<>>
    /\ res' = <<isDevelopmentMode(arg[1])>>
    /\ UNCHANGED <<serverStartTime, httpVars, conn, fn, arg>>

NextPure ==
    \/ CallInjectScript
    \/ CallIsHTMLResponse
    \/ CallIsDevelopmentMode

SpecPure == InitPure /\ [][NextPure]_vars

----------------------------------------------------------------------------
(* Definitions used to state the properties *)

RECURSIVE HandlerWrites(_)
(* The bytes the handler wrote, concatenated in call order *)
HandlerWrites(cs) ==
    IF cs = <<>>
    THEN <<>>
    ELSE (IF Head(cs).op = "Write" THEN Head(cs).data ELSE <<>>) \o HandlerWrites(Tail(cs))

RECURSIVE HeaderCalls(_)
(* The header calls of the handler, in call order *)
HeaderCalls(cs) ==
    IF cs = <<>>
    THEN <<>>
    ELSE (IF Head(cs).op \in HeaderOps THEN <<Head(cs)>> ELSE <<>>) \o HeaderCalls(Tail(cs))

WriteHeaderCalls(cs) == {i \in DOMAIN cs : cs[i].op = "WriteHeader"}

(* The code of the handler's last WriteHeader call; 0 when it made none *)
LastCode(cs) ==
    IF WriteHeaderCalls(cs) = {}
    THEN 0
    ELSE cs[CHOOSE i \in WriteHeaderCalls(cs) : \A j \in WriteHeaderCalls(cs) : j <= i].code

(* The status the capturer holds after the calls cs *)
CapturedCode(cs) == IF LastCode(cs) = 0 THEN StatusOK ELSE LastCode(cs)

RECURSIVE DirectRun(_)
(* The real writer after the same calls made directly on a fresh one *)
DirectRun(cs) ==
    IF cs = <<>>
    THEN NewReal
    ELSE ApplyReal(DirectRun(SubSeq(cs, 1, Len(cs) - 1)), cs[Len(cs)])

(* The header map the handler produced *)
HandlerHeader(cs) == DirectRun(cs).header

(* What the client has once the server finishes the response: a handler   *)
(* that wrote nothing gets status 200 with the header map as it is.        *)
Finished(rw) == Commit(rw, StatusOK)

StatusEvents(rw) == {i \in DOMAIN rw.wire : rw.wire[i].ev = "status"}

DevDone == pc = "done" /\ target = "wrapper"

DevHTML == DevDone /\ isHTMLResponse(HandlerWrites(calls), HandlerHeader(calls))

DevNonHTML == DevDone /\ ~isHTMLResponse(HandlerWrites(calls), HandlerHeader(calls))

(* The Host names neither localhost nor 127.0.0.1 *)
PlainHost(h) == ~Contains(h, Localhost) /\ ~Contains(h, Loopback)

----------------------------------------------------------------------------
(* Properties *)

(* C1: in a development-mode request in which the handler set a status    *)
(* code, the code the capturer holds (that of the handler's last           *)
(* WriteHeader call, 200 included) is sent to the client exactly once, by  *)
(* at most one WriteHeader call on the real writer, and it is the first    *)
(* thing sent: no header and no body byte goes out before it.              *)
C1_StatusWrittenOnceFirst ==
    (DevDone /\ LastCode(calls) # 0) =>
        /\ Cardinality(StatusEvents(w)) = 1
        /\ w.wire[1] = WireStatus(LastCode(calls))
        /\ w.status = LastCode(calls)
        /\ Cardinality(WriteHeaderCalls(w.log)) <= 1

C1_Witness ==
    /\ DevDone
    /\ Cardinality(WriteHeaderCalls(calls)) = 2
    /\ LastCode(calls) = StatusOK
    /\ w.body # <<>>

(* C2: in a development-mode request no call changes the real header map  *)
(* after the call that committed the status (the real WriteHeader, or the  *)
(* first real Write).                                                      *)
C2_NoHeaderChangeAfterStatus ==
    target = "wrapper" =>
        \A i, j \in DOMAIN w.log :
            (i < j /\ w.log[i].op \in {"WriteHeader", "Write"}) => w.log[j].op \notin HeaderOps

(* C3: a request on the catch-all route whose Host is not development     *)
(* mode runs the handler once, on the real writer, with no capturer; the   *)
(* calls reaching the real writer are the handler's calls in order, and    *)
(* the body has no snippet.                                                *)
C3_PassThrough ==
    (pc \in {"handler", "done"} /\ PlainHost(host)) =>
        /\ target = "real"
        /\ invoked = 1
        /\ ~wrapper.exists
        /\ w.log = calls
        /\ w = DirectRun(calls)
        /\ w.body = HandlerWrites(calls)

C3_Witness ==
    /\ pc = "done"
    /\ PlainHost(host)
    /\ isHTMLResponse(w.body, w.header)
    /\ w.status = 404
    /\ Len(calls) = 3

(* C4: in a development-mode request classified as HTML, the one Write on *)
(* the real writer carries injectScript of all the bytes the handler       *)
(* wrote, and the status sent is the captured one, 200 when none was set.  *)
C4_HTMLBodyAndStatus ==
    DevHTML =>
        /\ w.body = injectScript(HandlerWrites(calls))
        /\ w.log[Len(w.log)] = CallWrite(injectScript(HandlerWrites(calls)))
        /\ w.status = CapturedCode(calls)

C4_Witness ==
    /\ DevHTML
    /\ HandlerWrites(calls) = ChunkHeadOpen \o ChunkHeadCloseA \o ChunkHeadCloseB
    /\ w.body = ChunkHeadOpen \o scriptHTML \o Newline \o TagHeadClose

(* C5: in a development-mode request classified as HTML, the header map   *)
(* sent to the client is the one the handler produced: the same keys, and  *)
(* for each key the same values with the same multiplicity.                *)
C5_HTMLHeadersPreserved ==
    DevHTML => w.sentHeader = HandlerHeader(calls)

(* C6: in a development-mode request not classified as HTML, the          *)
(* dispatcher calls WriteHeader on the real writer only when the captured  *)
(* status is not 200, then writes the captured bytes as they are, and does *)
(* not touch the header map.                                               *)
C6_NonHTMLVerbatim ==
    DevNonHTML =>
        /\ w.log = HeaderCalls(calls)
                    \o (IF CapturedCode(calls) # StatusOK
                        THEN <<CallWriteHeader(CapturedCode(calls))>>
                        ELSE <<>>)
                    \o <<CallWrite(HandlerWrites(calls))>>
        /\ w.status = CapturedCode(calls)
        /\ w.body = HandlerWrites(calls)
        /\ w.header = HandlerHeader(calls)
        /\ w.sentHeader = HandlerHeader(calls)

C6_Witness ==
    /\ DevNonHTML
    /\ HandlerWrites(calls) = ChunkJson
    /\ HeaderGet(w.header, ContentType) = CTJson
    /\ w.status = 404

(* C7: on the catch-all route, the status and the headers the client gets *)
(* through the middleware are those it would get from the same handler     *)
(* run directly on the real writer.                                        *)
C7_SameStatusAndHeadersAsDirect ==
    pc = "done" =>
        /\ Finished(w).status = Finished(DirectRun(calls)).status
        /\ Finished(w).sentHeader = Finished(DirectRun(calls)).sentHeader

(* The events of one connection come in the order handshake, send, reads *)
TraceOrdered(t) ==
    \A k \in DOMAIN t :
        /\ t[k] \in {"upgrade_ok", "upgrade_fail"} => k = 1
        /\ t[k] \in {"send_ok", "send_fail"} => (k = 2 /\ t[1] = "upgrade_ok")
        /\ t[k] \in {"read_ok", "read_fail"} => (k >= 3 /\ t[2] = "send_ok")

Events(t, es) == {k \in DOMAIN t : t[k] \in es}

UpgradeSucceeded(c) == c.trace # <<>> /\ c.trace[1] = "upgrade_ok"

HandshakeFailed(c) == c.trace # <<>> /\ c.trace[1] = "upgrade_fail"

(* C8: on a connection whose upgrade succeeded the events are ordered     *)
(* handshake, one send, reads; the send is attempted once, before any      *)
(* read; the message is {type: "server-info", startTime: serverStartTime}, *)
(* with the same startTime on every connection; nothing more is sent       *)
(* however many messages are read.                                         *)
C8_OneServerInfoBeforeReads ==
    /\ \A i \in Conns :
        UpgradeSucceeded(conn[i]) =>
            /\ TraceOrdered(conn[i].trace)
            /\ Cardinality(Events(conn[i].trace, {"send_ok", "send_fail"})) <= 1
            /\ conn[i].pc \in {"read", "done"} =>
                  Cardinality(Events(conn[i].trace, {"send_ok", "send_fail"})) = 1
            /\ Len(conn[i].sent) = Cardinality(Events(conn[i].trace, {"send_ok"}))
            /\ \A k \in DOMAIN conn[i].sent :
                  conn[i].sent[k] = [type |-> "server-info", startTime |-> serverStartTime]
    /\ \A i, j \in Conns :
        \A k \in DOMAIN conn[i].sent, l \in DOMAIN conn[j].sent :
            conn[i].sent[k] = conn[j].sent[l]

C8_Witness ==
    /\ Cardinality(Events(conn[1].trace, {"read_ok"})) = 2
    /\ conn[1].pc = "done"
    /\ Len(conn[1].sent) = 1
    /\ conn[2].pc = "read"
    /\ Len(conn[2].sent) = 1

(* C9: when handleLiveReload has returned, a channel that was opened is   *)
(* closed, and closing is the last thing done; a channel is closed only as *)
(* the handler returns; after a failed initial send no read is attempted.  *)
C9_ClosedOnEveryExit ==
    \A i \in Conns :
        /\ conn[i].pc = "done" =>
              /\ conn[i].open => conn[i].closed
              /\ conn[i].open => conn[i].trace[Len(conn[i].trace)] = "close"
        /\ conn[i].closed => (conn[i].open /\ conn[i].pc = "done")
        /\ Events(conn[i].trace, {"send_fail"}) # {} =>
              Events(conn[i].trace, {"read_ok", "read_fail"}) = {}

C9_Witness ==
    /\ conn[1].pc = "done"
    /\ conn[1].trace = <<"upgrade_ok", "send_fail", "close">>
    /\ conn[1].closed
    /\ conn[2].pc = "done"
    /\ conn[2].trace = <<"upgrade_ok", "send_ok", "read_ok", "read_fail", "close">>
    /\ conn[2].closed

(* C10: a connection whose handshake failed has done nothing else: no     *)
(* message sent, no read, no channel, and its handler has returned; a step *)
(* of one connection changes no other connection, and a connection not yet *)
(* started can still be accepted.                                          *)
C10_AfterFailedHandshake ==
    \A i \in Conns :
        HandshakeFailed(conn[i]) =>
            /\ conn[i].trace = <<"upgrade_fail">>
            /\ conn[i].pc = "done"
            /\ ~conn[i].open
            /\ ~conn[i].closed
            /\ conn[i].sent = <<>>

C10_HandshakeFailureIsolated ==
    [][/\ C10_AfterFailedHandshake'
       /\ \A i, j \in Conns : (i # j /\ conn'[i] # conn[i]) => conn'[j] = conn[j]
       /\ \A j \in Conns : conn'[j].pc = "none" => (ENABLED Accept(j))']_vars

C10_Witness ==
    /\ HandshakeFailed(conn[1])
    /\ conn[1].logged = <<"WebSocket upgrade failed">>
    /\ conn[2].pc = "read"
    /\ conn[2].sent = <<ServerInfo(serverStartTime)>>
    /\ Events(conn[2].trace, {"read_ok"}) # {}

(* A path in canonical form: rooted, no empty segment inside, no "." or    *)
(* ".." segment                                                            *)
CanonicalPath(p) ==
    /\ p # <<>>
    /\ Head(p) = "/"
    /\ ~Contains(p, <<"/", "/">>)
    /\ ~Contains(p \o Slash, <<"/", ".", "/">>)
    /\ ~Contains(p \o Slash, <<"/", ".", ".", "/">>)

Occurs(s, p, i) == i >= 1 /\ i + Len(p) - 1 <= Len(s) /\ SubSeq(s, i, i + Len(p) - 1) = p

Has(s, p) == \E i \in 1..Len(s) : Occurs(s, p, i)

(* The position of the first occurrence of p in s *)
First(s, p) == CHOOSE i \in 1..Len(s) : Occurs(s, p, i) /\ \A j \in 1..(i - 1) : ~Occurs(s, p, j)

(* s with ins put in right before position i *)
InsertBefore(s, i, ins) == SubSeq(s, 1, i - 1) \o ins \o SubSeq(s, i, Len(s))

Injected == fn = "injectScript" /\ res # <<>>

(* C12 as stated: for a body containing </head>, injectScript(body) is     *)
(* prefix + snippet + suffix, prefix the body up to the first </head> and  *)
(* suffix the body from there on.                                          *)
C12_SnippetAloneBeforeHead ==
    (Injected /\ Has(arg[1], TagHeadClose)) =>
        res[1] = InsertBefore(arg[1], First(arg[1], TagHeadClose), scriptHTML)

(* C12 amended: for a body containing </head>, injectScript(body) is       *)
(* prefix + snippet + line feed + suffix, prefix the body up to the first  *)
(* </head> and suffix the body from there on; later occurrences of </head> *)
(* are untouched, and taking the snippet and the line feed out of the      *)
(* result gives the body back.                                             *)
C12_SnippetAndNewlineBeforeHead ==
    (Injected /\ Has(arg[1], TagHeadClose)) =>
        LET i == First(arg[1], TagHeadClose)
            n == Len(scriptHTML) + 1
        IN  /\ res[1] = InsertBefore(arg[1], i, scriptHTML \o Newline)
            /\ SubSeq(res[1], 1, i - 1) \o SubSeq(res[1], i + n, Len(res[1])) = arg[1]

C12_Witness ==
    /\ Injected
    /\ arg[1] = TagP \o TagHeadClose \o TagHeadClose
    /\ res[1] = TagP \o scriptHTML \o Newline \o TagHeadClose \o TagHeadClose

(* The marker injectScript is to insert before: by priority, <<>> if none *)
Anchor(b) ==
    IF Has(b, TagHeadClose) THEN TagHeadClose
    ELSE IF Has(b, TagBodyClose) THEN TagBodyClose
    ELSE IF Has(b, TagHtmlClose) THEN TagHtmlClose
    ELSE <<>>

(* C13: injectScript inserts (the snippet and a line feed) before the      *)
(* first occurrence of the marker chosen by priority </head>, </body>,     *)
(* </html>, wherever the markers stand in the body; when none of the three *)
(* occurs, case-sensitively, the result is the body followed by the        *)
(* snippet and nothing else.                                               *)
C13_AnchorByPriority ==
    Injected =>
        IF Anchor(arg[1]) = <<>>
        THEN res[1] = arg[1] \o scriptHTML
        ELSE res[1] = InsertBefore(arg[1], First(arg[1], Anchor(arg[1])), scriptHTML \o Newline)

C13_Witness ==
    /\ Injected
    /\ arg[1] = TagHtmlClose \o TagBodyClose \o TagHeadClose
    /\ res[1] = TagHtmlClose \o TagBodyClose \o scriptHTML \o Newline \o TagHeadClose

(* p occurs in s when the case of the letters of s is ignored *)
HasFolded(s, p) ==
    \E i \in 1..Len(s) :
        /\ i + Len(p) - 1 <= Len(s)
        /\ \A k \in 1..Len(p) : LowerChar(s[i + k - 1]) = p[k]

Sniffed(b) ==
    \/ HasFolded(b, TagHtmlOpen)
    \/ HasFolded(b, TagDoctype)
    \/ HasFolded(b, TagHeadOpen)
    \/ (HasFolded(b, TagBodyOpen) /\ HasFolded(b, TagBodyClose))

Classified == fn = "isHTMLResponse" /\ res # <<>>

(* C14: isHTMLResponse is true whenever the Content-Type value contains    *)
(* text/html in that case, whatever the body; in every other case, a       *)
(* declared non-HTML type such as application/json included, the result is *)
(* that of the body sniffing; it is false for a JSON body declared         *)
(* application/json.                                                       *)
C14_ContentTypeThenSniffing ==
    Classified =>
        LET ct == HeaderGet(arg[2], ContentType)
        IN  /\ Has(ct, TextHtml) => res[1] = TRUE
            /\ ~Has(ct, TextHtml) => res[1] = Sniffed(arg[1])
            /\ (ct = CTJson /\ arg[1] = ChunkJson) => res[1] = FALSE

C14_Witness ==
    /\ Classified
    /\ HeaderGet(arg[2], ContentType) = CTJson
    /\ arg[1] = ChunkJson \o TagHtmlOpenUpper
    /\ res[1] = TRUE

ModeDecided == fn = "isDevelopmentMode" /\ res # <<>>

(* C15: isDevelopmentMode is true exactly when the Host contains localhost *)
(* or 127.0.0.1, at any position, with or without a port; it is decided by *)
(* the Host alone.                                                         *)
C15_HostContainsLocal ==
    ModeDecided => res[1] = (Has(arg[1], Localhost) \/ Has(arg[1], Loopback))

C15_Witness ==
    /\ ModeDecided
    /\ arg[1] = HostPartMy \o Localhost \o HostPartPort
    /\ arg[2] = PathIndex
    /\ res[1] = TRUE

WriterCalls(log) == {i \in DOMAIN log : log[i].op \in {"WriteHeader", "Write"}}

(* C16: in a development-mode request, while the wrapped handler runs on   *)
(* the capturer, no WriteHeader and no Write has reached the real writer   *)
(* and nothing has been sent, whatever the handler called; the WriteHeader *)
(* and Write calls on the real writer all come after the handler's last    *)
(* call.                                                                   *)
C16_NothingReachesRealWriterEarly ==
    target = "wrapper" =>
        /\ pc = "handler" =>
              /\ WriterCalls(w.log) = {}
              /\ w.wire = <<>>
              /\ ~w.wroteHeader
              /\ w.body = <<>>
              /\ w.log = HeaderCalls(calls)
        /\ \A i \in WriterCalls(w.log) : pc = "done" /\ i > Len(HeaderCalls(calls))

C16_Witness ==
    /\ target = "wrapper"
    /\ pc = "handler"
    /\ Len(calls) = 3
    /\ wrapper.statusCode = 404
    /\ wrapper.body = ChunkHeadOpen \o ChunkJson
    /\ w.log = <<>>

(* C17: a connection that is OPEN after the initial send leaves that state *)
(* only by a failed read: a read that returns a message keeps it there and *)
(* sends nothing, the first failed read ends the loop and the handler      *)
(* returns, closing the channel, with no further read or send; a handler   *)
(* that has returned does nothing more.                                    *)
C17_OpenUntilReadFails ==
    [][\A i \in Conns :
        /\ (conn[i].pc = "read" /\ conn'[i] # conn[i]) =>
              \/ conn'[i] = [conn[i] EXCEPT !.trace = Append(@, "read_ok")]
              \/ conn'[i] = [conn[i] EXCEPT !.trace = @ \o <<"read_fail", "close">>,
                                            !.pc = "done", !.closed = TRUE]
        /\ conn[i].pc = "done" => conn'[i] = conn[i]]_vars

C17_Witness ==
    /\ conn[1].pc = "read"
    /\ conn[1].trace = <<"upgrade_ok", "send_ok", "read_ok", "read_ok">>
    /\ conn[2].pc = "done"
    /\ conn[2].trace = <<"upgrade_ok", "send_ok", "read_fail", "close">>

Writes(log) == {i \in DOMAIN log : log[i].op = "Write"}

(* C18: in a development-mode request the dispatcher makes exactly one     *)
(* Write on the real writer, as its last call, after the handler has       *)
(* returned, however many Write calls the handler made and whichever       *)
(* branch is taken; none is made while the handler runs.                   *)
C18_ExactlyOneRealWrite ==
    target = "wrapper" =>
        /\ pc = "handler" => Writes(w.log) = {}
        /\ pc = "done" => Writes(w.log) = {Len(w.log)}

C18_Witness ==
    /\ DevNonHTML
    /\ Writes(calls) = {}
    /\ Len(calls) = 2
    /\ Writes(w.log) = {Len(w.log)}
    /\ w.log[Len(w.log)].data = <<>>

(* The handler declared a Content-Length, the number of bytes it wrote *)
DeclaredLength ==
    /\ HandlerHeader(calls)[ContentLength] # <<>>
    /\ Atoi(HeaderGet(HandlerHeader(calls), ContentLength)) = Len(HandlerWrites(calls))

(* C19: when the handler declares a Content-Length equal to the number of  *)
(* bytes it writes, the number of body bytes written to the real writer in *)
(* development mode equals the Content-Length sent, in the HTML branch as  *)
(* in the non-HTML branch.                                                 *)
C19_ContentLengthMatchesBody ==
    (DevDone /\ DeclaredLength) =>
        /\ w.sentHeader[ContentLength] # <<>>
        /\ Atoi(HeaderGet(w.sentHeader, ContentLength)) = Len(w.body)

====
